---- MODULE Spec2Model ----
(***************************************************************************)
(* Token lifecycle of the Theta Health MCP proxy (src/server/index.js):    *)
(* the on-disk multi-environment token cache (TokenCache), the startup     *)
(* load/refresh of the cached token, the interception of tool-call         *)
(* responses (auth-success and browser-authorization signals), the         *)
(* debounced browser open and the timer-driven polling sessions.           *)
(*                                                                         *)
(* Time is Date.now() in milliseconds.  Handlers run to completion between *)
(* awaits (single-threaded event loop), so every action below is the code  *)
(* between two suspension points.  The file system is taken to be          *)
(* reliable for writes; a missing or unparsable tokens.json reads as the   *)
(* empty collection, exactly as _loadAllTokens returns {} for both.        *)
(***************************************************************************)
EXTENDS Integers, Sequences, FiniteSets, TLC

\* ------------------------------------------------------------------ bounds
Epoch == 1000000        \* Date.now() when the process starts
TickMs == 5000          \* the clock advances in steps of this many ms
MaxTicks == 3           \* number of clock steps in a run
MaxSignals == 3         \* browser-authorization signals handled in a run
MaxSessions == 1        \* polling sessions started in a run

\* ------------------------------------------------------- program constants
browserOpenDebounceTime == 10000
SevenDays == 7 * 24 * 60 * 60 * 1000
DefaultAuthLifetime == 3600
DefaultCheckInterval == 3
DefaultMaxWaitTime == 300
RequestTimeoutMs == 10000

\* ------------------------------------------------------------ JS values
Null == "<null>"                 \* null / undefined where a string is expected
Truthy(s) == s \notin {Null, ""} \* JS truthiness of a string-or-undefined
None == <<>>                     \* an omitted number (undefined / NaN)
Some(n) == <<n>>

NoRec == [absent |-> TRUE]       \* allTokens[key] === undefined

\* ------------------------------------------------------------ endpoints
\* An endpoint is what `new URL(endpoint)` makes of it: whether it parses,
\* and the characters of its hostname.
Endpoints ==
  { [valid |-> TRUE, hostname |-> <<"a", ".", "b">>],
    [valid |-> TRUE, hostname |-> <<"c">>] }

AlphaNum == {"a", "b", "c", "d", "e", "f", "l", "m", "t", "u", "0", "1"}

RECURSIVE ReplaceNonAlnum(_)
ReplaceNonAlnum(h) ==
  IF h = <<>> THEN ""
  ELSE (IF Head(h) \in AlphaNum THEN Head(h) ELSE "_") \o ReplaceNonAlnum(Tail(h))

_getEnvironmentKey(endpoint) ==
  IF endpoint.valid THEN ReplaceNonAlnum(endpoint.hostname) ELSE "default"

\* Endpoints whose hostnames differ only in characters outside [a-zA-Z0-9],
\* or are the words the store itself uses, and an endpoint that does not
\* parse.
KeyEndpoints ==
  Endpoints \cup
  { [valid |-> TRUE, hostname |-> <<"a", "-", "b">>],
    [valid |-> TRUE, hostname |-> <<"d", "e", "f", "a", "u", "l", "t">>],
    [valid |-> TRUE, hostname |-> <<"_", "m", "e", "t", "a", "d", "a", "t", "a">>],
    [valid |-> FALSE, hostname |-> <<>>] }

MetaKey == "_metadata"
Keys == {_getEnvironmentKey(e) : e \in KeyEndpoints} \cup {MetaKey}

\* ------------------------------------------------------------ TokenCache
\* tokens.json as the JSON document it holds: a mapping from key to record.
\* The empty mapping also stands for a missing or unparsable file, for which
\* _loadAllTokens returns {}.
EmptyFile == [k \in Keys |-> NoRec]

_loadAllTokens(file) == file

\* r.f in JS: undefined when the property is missing.
Field(r, f) == IF f \in DOMAIN r THEN r[f] ELSE Null
\* r.f = v in JS: the property is added when missing.
SetField(r, f, v) == [x \in (DOMAIN r) \cup {f} |-> IF x = f THEN v ELSE r[x]]

\* JSON.stringify drops the properties whose value is undefined.
StringFields == {"access_token", "token_type", "refresh_token", "scope"}
Stringify(r) ==
  IF r = NoRec THEN NoRec
  ELSE LET keep == {f \in DOMAIN r : ~(f \in StringFields /\ r[f] = Null)}
       IN  [f \in keep |-> r[f]]

Metadata(now) ==
  [last_updated |-> now, version |-> "2.0",
   description |-> "Multi-environment token cache for Theta Health MCP"]

_saveAllTokens(allTokens, now) ==
  [k \in Keys |-> IF k = MetaKey THEN Metadata(now) ELSE Stringify(allTokens[k])]

\* The fallback as it would be with the one-hour lifetime of the
\* auth-success path.
ExpiresAtOrDefault_oneHour(expires_at, now) ==
  IF expires_at # None /\ expires_at[1] # 0 THEN expires_at[1] ELSE now + 3600 * 1000

\* tokenData.expires_at || Date.now() + 7 days: an omitted, NaN or zero
\* expiry falls back to the default.
ExpiresAtOrDefault(expires_at, now) ==
  IF expires_at # None /\ expires_at[1] # 0 THEN expires_at[1] ELSE now + SevenDays

\* saveToken as it would be if it wrote a collection holding only its own
\* record instead of reading the collection first.
saveToken_onlyOwnRecord(file, endpoint, tokenData, now) ==
  _saveAllTokens(
    [EmptyFile EXCEPT ![_getEnvironmentKey(endpoint)] =
       [access_token  |-> tokenData.access_token,
        token_type    |-> IF Truthy(tokenData.token_type)
                          THEN tokenData.token_type ELSE "Bearer",
        expires_at    |-> ExpiresAtOrDefault(tokenData.expires_at, now),
        refresh_token |-> tokenData.refresh_token,
        scope         |-> tokenData.scope,
        created_at    |-> now,
        endpoint      |-> endpoint,
        environment   |-> _getEnvironmentKey(endpoint),
        last_used     |-> now]],
    now)

saveToken(file, endpoint, tokenData, now) ==
  LET cacheData ==
        [access_token  |-> tokenData.access_token,
         token_type    |-> IF Truthy(tokenData.token_type)
                           THEN tokenData.token_type ELSE "Bearer",
         expires_at    |-> ExpiresAtOrDefault(tokenData.expires_at, now),
         refresh_token |-> tokenData.refresh_token,
         scope         |-> tokenData.scope,
         created_at    |-> now,
         endpoint      |-> endpoint,
         environment   |-> _getEnvironmentKey(endpoint),
         last_used     |-> now]
      allTokens == _loadAllTokens(file)
  IN  _saveAllTokens([allTokens EXCEPT ![_getEnvironmentKey(endpoint)] = cacheData], now)

\* if (!tokenData): a stored value counts when it is there at all.
IsRec(r) == r # NoRec
\* The expiry test with the comparison the wrong way round.
IsExpired_reversed(r, now) ==
  /\ "expires_at" \in DOMAIN r
  /\ r.expires_at # 0
  /\ now < r.expires_at

\* tokenData.expires_at && Date.now() > tokenData.expires_at
IsExpired(r, now) ==
  /\ "expires_at" \in DOMAIN r
  /\ r.expires_at # 0
  /\ now > r.expires_at

\* loadToken: the value returned (kind "null", "expired" or "ok") and the
\* file it leaves behind.
loadToken(file, endpoint, now) ==
  LET key == _getEnvironmentKey(endpoint)
      allTokens == _loadAllTokens(file)
      tokenData == allTokens[key]
  IN  IF ~IsRec(tokenData)
      THEN [kind |-> "null", token |-> NoRec, file |-> file]
      ELSE IF IsExpired(tokenData, now)
      THEN [kind |-> "expired", token |-> tokenData, file |-> file]
      ELSE LET used == SetField(tokenData, "last_used", now)
           IN  [kind |-> "ok", token |-> used,
                file |-> _saveAllTokens([allTokens EXCEPT ![key] = used], now)]

\* clearToken as it would be if it rewrote the file without deleting.
clearToken_keepsRecord(file, endpoint, now) ==
  IF IsRec(_loadAllTokens(file)[_getEnvironmentKey(endpoint)])
  THEN _saveAllTokens(_loadAllTokens(file), now)
  ELSE file

clearToken(file, endpoint, now) ==
  LET key == _getEnvironmentKey(endpoint)
      allTokens == _loadAllTokens(file)
  IN  IF IsRec(allTokens[key])
      THEN _saveAllTokens([allTokens EXCEPT ![key] = NoRec], now)
      ELSE file

getTokenStatus(file, endpoint, now) ==
  LET t == loadToken(file, endpoint, now)
  IN  [status |-> CASE t.kind = "null" -> "not_found"
                    [] t.kind = "expired" -> "expired"
                    [] OTHER -> "valid",
       token |-> t.token, file |-> t.file]

\* ------------------------------------------------- requests and responses
AuthNotRequiredTools ==
  {"start_authentication", "get_code", "oauth_exchange_code_for_token",
   "oauth_refresh_token", "oauth_validate_token",
   "tools/list", "resources/list", "prompts/list"}

\* needsAuth as it would be without the tool-name allow-list.
needsAuth_methodOnly(method, name) ==
  ~( \/ method = "tools/list"
     \/ method = "resources/list"
     \/ method = "prompts/list" )

needsAuth(method, name) ==
  ~( \/ method = "tools/list"
     \/ method = "resources/list"
     \/ method = "prompts/list"
     \/ (method = "tools/call" /\ name \in AuthNotRequiredTools) )

\* The Authorization header of the request makeHttpRequest builds (Null:
\* no such header).
AuthorizationHeader(method, name, token) ==
  IF needsAuth(method, name) /\ Truthy(token) THEN "Bearer " \o token ELSE Null

NoReq == [method |-> Null, name |-> Null, auth |-> Null]

\* makeHttpRequest up to the point where the request is written; `new
\* URL(this.httpServiceUrl)` throws for an endpoint that does not parse.
makeHttpRequest(endpoint, method, name, token) ==
  IF endpoint.valid
  THEN [sent |-> TRUE,
        req |-> [method |-> method, name |-> name,
                 auth |-> AuthorizationHeader(method, name, token)]]
  ELSE [sent |-> FALSE, req |-> NoReq]

\* The auto_polling object of a browser-authorization payload.
NoPolling == [present |-> FALSE, enabled |-> FALSE, state |-> Null,
              check_interval |-> None, max_wait_time |-> None]
Polling(state, interval, maxWait) ==
  [present |-> TRUE, enabled |-> TRUE, state |-> state,
   check_interval |-> interval, max_wait_time |-> maxWait]

\* What JSON.parse makes of content[0].text: parse is "bad" when it throws,
\* "null" for the JSON value null, "obj" for an object with these members.
\* success is "true" (=== true), "truthy" (any other truthy value) or "none".
PlainPayload ==
  [parse |-> "obj", success |-> "none", access_token |-> Null,
   token_type |-> Null, expires_in |-> None, refresh_token |-> Null,
   scope |-> Null, auto_open_browser |-> FALSE, authorization_url |-> Null,
   auto_polling |-> NoPolling]

MalformedPayload == [PlainPayload EXCEPT !.parse = "bad"]
NullPayload == [PlainPayload EXCEPT !.parse = "null"]

AuthPayload(tok, lifetime, refresh) ==
  [PlainPayload EXCEPT !.success = "true", !.access_token = tok,
                       !.token_type = "Bearer", !.expires_in = lifetime,
                       !.refresh_token = refresh]

BrowserPayload(polling) ==
  [PlainPayload EXCEPT !.auto_open_browser = TRUE,
                       !.authorization_url = "https://auth/authorize",
                       !.auto_polling = polling]

\* A JSON-RPC response as the handlers see it.  shape: "reject" (connection
\* error or a body that is not JSON), "null" (the body is the JSON value
\* null), "noresult", "nocontent", "empty" (content is []), "text".
Response(shape, payload) == [shape |-> shape, payload |-> payload]
HasContent0(response) == response.shape = "text"

\* A status-check response: shape "reject" (network error, non-200 status or
\* unparsable body), "null" or "json".
StateCheck(shape, status, tok) ==
  [shape |-> shape, status |-> status, token |-> tok, token_type |-> "Bearer"]

\* ------------------------------------------------- response classification
isTokenAuthResponse(response) ==
  /\ HasContent0(response)
  /\ response.payload.parse = "obj"
  /\ response.payload.success = "true"
  /\ Truthy(response.payload.access_token)
  /\ response.payload.token_type = "Bearer"

isAutoOpenBrowserResponse(response) ==
  /\ HasContent0(response)
  /\ response.payload.parse = "obj"
  /\ response.payload.auto_open_browser
  /\ Truthy(response.payload.authorization_url)

\* ------------------------------------------------------- proxy handlers
\* The mutable proxy state a handler works on: this.token, tokens.json,
\* this.lastBrowserOpenTime, the polling sessions started so far and the log
\* of browser-authorization signals handled so far.
ProxyState(tok, f, lbo, ss, log) ==
  [token |-> tok, file |-> f, lastBrowserOpenTime |-> lbo,
   sessions |-> ss, sigLog |-> log]

OrDefault(opt, dflt) == IF opt = None THEN dflt ELSE opt[1]

\* startAutoPolling: a new session whose first poll is due one interval
\* from now.
startAutoPolling(sessions, pollingConfig, now) ==
  LET check_interval == OrDefault(pollingConfig.check_interval, DefaultCheckInterval)
      max_wait_time == OrDefault(pollingConfig.max_wait_time, DefaultMaxWaitTime)
  IN  Append(sessions,
             [state |-> pollingConfig.state,
              check_interval |-> check_interval,
              max_wait_time |-> max_wait_time,
              startTime |-> now,
              phase |-> "timer",
              due |-> now + check_interval * 1000,
              issuedAt |-> now,
              outcome |-> "none",
              savedAt |-> None])

\* handleTokenAuthResponse as it would be without the comparison of the new
\* token with this.token.
handleTokenAuthResponse_alwaysWrites(st, endpoint, response, now) ==
  IF HasContent0(response) /\ response.payload.parse = "obj"
  THEN LET content == response.payload
           newToken == content.access_token
       IN  IF Truthy(newToken)
           THEN [st EXCEPT
                   !.token = newToken,
                   !.file = saveToken(st.file, endpoint,
                              [access_token |-> newToken,
                               token_type |-> IF Truthy(content.token_type)
                                              THEN content.token_type ELSE "Bearer",
                               expires_at |->
                                 Some(now + (IF content.expires_in = None
                                                \/ content.expires_in[1] = 0
                                             THEN DefaultAuthLifetime
                                             ELSE content.expires_in[1]) * 1000),
                               refresh_token |-> content.refresh_token,
                               scope |-> content.scope],
                              now)]
           ELSE st
  ELSE st

handleTokenAuthResponse(st, endpoint, response, now) ==
  IF HasContent0(response) /\ response.payload.parse = "obj"
  THEN LET content == response.payload
           newToken == content.access_token
       IN  IF Truthy(newToken) /\ newToken # st.token
           THEN [st EXCEPT
                   !.token = newToken,
                   !.file = saveToken(st.file, endpoint,
                              [access_token |-> newToken,
                               token_type |-> IF Truthy(content.token_type)
                                              THEN content.token_type ELSE "Bearer",
                               expires_at |->
                                 Some(now + (IF content.expires_in = None
                                                \/ content.expires_in[1] = 0
                                             THEN DefaultAuthLifetime
                                             ELSE content.expires_in[1]) * 1000),
                               refresh_token |-> content.refresh_token,
                               scope |-> content.scope],
                              now)]
           ELSE st
  ELSE st

\* this.token and the stored record of this endpoint are both absent.
Cleared(st, endpoint) ==
  /\ ~Truthy(st.token)
  /\ ~IsRec(st.file[_getEnvironmentKey(endpoint)])

\* One entry of the signal log: when the signal was handled, whether exec
\* was invoked and whether polling was started, and for a signal that opened
\* the browser whether the credential was cleared at the moment of the exec
\* call and at the moment polling was started.
SignalEntry(now, opened, polled, clearedAtExec, clearedAtPoll) ==
  [time |-> now, opened |-> opened, polled |-> polled,
   clearedAtExec |-> clearedAtExec, clearedAtPoll |-> clearedAtPoll]

\* The debounce test as it would be if the elapsed milliseconds were compared
\* with the window in seconds.
InDebounceWindow_seconds(now, lastOpen) ==
  now - lastOpen < browserOpenDebounceTime \div 1000

\* timeSinceLastOpen < this.browserOpenDebounceTime
InDebounceWindow(now, lastOpen) ==
  now - lastOpen < browserOpenDebounceTime

\* The debounce branch as it would be if the reminder also restarted the
\* window, this.lastBrowserOpenTime = currentTime.
remindOfPendingLink_restartsWindow(st, content, now) ==
  LET polls == content.auto_polling.present /\ content.auto_polling.enabled
  IN  [st EXCEPT
         !.lastBrowserOpenTime = now,
         !.sessions = IF polls
                      THEN startAutoPolling(st.sessions, content.auto_polling, now)
                      ELSE st.sessions,
         !.sigLog = Append(st.sigLog,
                           SignalEntry(now, FALSE, polls, FALSE, FALSE))]

\* The debounce branch of handleAutoOpenBrowserResponse: the link is logged
\* again, no exec, polling still started; this.lastBrowserOpenTime,
\* this.token and the store are not written.
remindOfPendingLink(st, content, now) ==
  LET polls == content.auto_polling.present /\ content.auto_polling.enabled
  IN  [st EXCEPT
         !.sessions = IF polls
                      THEN startAutoPolling(st.sessions, content.auto_polling, now)
                      ELSE st.sessions,
         !.sigLog = Append(st.sigLog,
                           SignalEntry(now, FALSE, polls, FALSE, FALSE))]

handleAutoOpenBrowserResponse(st, endpoint, response, now) ==
  IF ~(HasContent0(response) /\ response.payload.parse = "obj")
  THEN st
  ELSE
  LET content == response.payload
      polls == content.auto_polling.present /\ content.auto_polling.enabled
  IN  IF ~(content.auto_open_browser /\ Truthy(content.authorization_url))
      THEN st
      ELSE IF InDebounceWindow(now, st.lastBrowserOpenTime)
      THEN remindOfPendingLink(st, content, now)
      ELSE LET marked == [st EXCEPT !.lastBrowserOpenTime = now]
               cleared == [marked EXCEPT
                             !.file = clearToken(marked.file, endpoint, now),
                             !.token = Null]
               \* exec(command, ...) runs here, on the state `cleared`
               polling == IF polls
                          THEN [cleared EXCEPT
                                  !.sessions = startAutoPolling(cleared.sessions,
                                                 content.auto_polling, now)]
                          ELSE cleared
           IN  [polling EXCEPT
                  !.sigLog = Append(st.sigLog,
                                    SignalEntry(now, TRUE, polls,
                                                Cleared(cleared, endpoint),
                                                Cleared(cleared, endpoint)))]

\* The value the call-tool handler returns for a response it received:
\* the remote content itself, the JSON text of the result when there is no
\* content, or an error text when reading the response throws.
NoText == [parse |-> "none"]

\* The result as it would be if a text that does not parse made the handler
\* throw into its catch block.
CallToolResult_throwsOnBadJson(response) ==
  CASE response.shape \in {"reject", "null"} -> [kind |-> "error", text |-> NoText]
    [] response.shape \in {"noresult", "nocontent"} ->
         [kind |-> "result_text", text |-> NoText]
    [] response.shape = "empty" -> [kind |-> "empty_content", text |-> NoText]
    [] response.shape = "text" /\ response.payload.parse = "bad" ->
         [kind |-> "error", text |-> NoText]
    [] OTHER -> [kind |-> "content", text |-> response.payload]

CallToolResult(response) ==
  CASE response.shape \in {"reject", "null"} -> [kind |-> "error", text |-> NoText]
    [] response.shape \in {"noresult", "nocontent"} ->
         [kind |-> "result_text", text |-> NoText]
    [] response.shape = "empty" -> [kind |-> "empty_content", text |-> NoText]
    [] OTHER -> [kind |-> "content", text |-> response.payload]

\* The interception done by the call-tool handler between receiving the
\* response and returning.
Intercept(st, endpoint, response, now) ==
  LET afterAuth == IF isTokenAuthResponse(response)
                   THEN handleTokenAuthResponse(st, endpoint, response, now)
                   ELSE st
  IN  IF isAutoOpenBrowserResponse(response)
      THEN handleAutoOpenBrowserResponse(afterAuth, endpoint, response, now)
      ELSE afterAuth

\* refreshToken as it would be if a failed refresh dropped the stale record.
refreshToken_clearsOnFailure(file, endpoint, refresh_token, response, now) ==
  IF /\ HasContent0(response)
     /\ response.payload.parse = "obj"
     /\ response.payload.success # "none"
  THEN [ok |-> TRUE, content |-> response.payload,
        file |-> saveToken(file, endpoint,
                   [access_token |-> response.payload.access_token,
                    token_type |-> response.payload.token_type,
                    expires_at |-> IF response.payload.expires_in = None THEN None
                                   ELSE Some(now + response.payload.expires_in[1] * 1000),
                    refresh_token |-> IF Truthy(response.payload.refresh_token)
                                      THEN response.payload.refresh_token
                                      ELSE refresh_token,
                    scope |-> response.payload.scope],
                   now)]
  ELSE [ok |-> FALSE, content |-> PlainPayload,
        file |-> clearToken(file, endpoint, now)]

\* refreshToken after its request was answered: the content it returns
\* (ok = FALSE: it returns null) and the file it leaves behind.
refreshToken(file, endpoint, refresh_token, response, now) ==
  IF /\ HasContent0(response)
     /\ response.payload.parse = "obj"
     /\ response.payload.success # "none"
  THEN LET content == response.payload
       IN  [ok |-> TRUE, content |-> content,
            file |-> saveToken(file, endpoint,
                       [access_token |-> content.access_token,
                        token_type |-> content.token_type,
                        expires_at |-> IF content.expires_in = None THEN None
                                       ELSE Some(now + content.expires_in[1] * 1000),
                        refresh_token |-> IF Truthy(content.refresh_token)
                                          THEN content.refresh_token
                                          ELSE refresh_token,
                        scope |-> content.scope],
                       now)]
  ELSE [ok |-> FALSE, content |-> PlainPayload, file |-> file]

\* The synchronous part of loadCachedToken, up to its return or to the
\* await of the refresh request.  phase: "returned", "refreshing", or
\* "threw" when this.token.substring is called on a record that has no
\* access_token (the promise of the call is rejected).
loadCachedToken(tok, f, e, t) ==
  IF Truthy(tok)
  THEN [token |-> tok, file |-> f, req |-> NoReq,
        load |-> [phase |-> "returned", value |-> tok, refreshes |-> 0,
                  refresh_token |-> Null]]
  ELSE
  LET tokenStatus == getTokenStatus(f, e, t)
      rt == Field(tokenStatus.token, "refresh_token")
      request == makeHttpRequest(e, "tools/call", "oauth_refresh_token", tok)
  IN  CASE tokenStatus.status = "valid"
             /\ Field(tokenStatus.token, "access_token") = Null ->
             [token |-> Null, file |-> tokenStatus.file, req |-> NoReq,
              load |-> [phase |-> "threw", value |-> Null, refreshes |-> 0,
                        refresh_token |-> Null]]
        [] tokenStatus.status = "valid" ->
             [token |-> Field(tokenStatus.token, "access_token"),
              file |-> tokenStatus.file, req |-> NoReq,
              load |-> [phase |-> "returned",
                        value |-> Field(tokenStatus.token, "access_token"),
                        refreshes |-> 0, refresh_token |-> Null]]
        [] tokenStatus.status = "expired" /\ Truthy(rt) /\ request.sent ->
             [token |-> tok, file |-> tokenStatus.file, req |-> request.req,
              load |-> [phase |-> "refreshing", value |-> Null, refreshes |-> 1,
                        refresh_token |-> rt]]
        [] tokenStatus.status = "expired" /\ Truthy(rt) /\ ~request.sent ->
             [token |-> tok, file |-> tokenStatus.file, req |-> NoReq,
              load |-> [phase |-> "returned", value |-> Null, refreshes |-> 1,
                        refresh_token |-> rt]]
        [] OTHER ->
             [token |-> tok, file |-> tokenStatus.file, req |-> NoReq,
              load |-> [phase |-> "returned", value |-> Null, refreshes |-> 0,
                        refresh_token |-> Null]]

\* The rest of loadCachedToken once the refresh request was answered.
loadCachedTokenResume(tok, f, ld, e, response, t) ==
  LET refreshResult == refreshToken(f, e, ld.refresh_token, response, t)
  IN  IF refreshResult.ok
      THEN [token |-> refreshResult.content.access_token,
            file |-> refreshResult.file,
            load |-> [ld EXCEPT !.phase = "returned",
                                !.value = refreshResult.content.access_token]]
      ELSE [token |-> tok, file |-> refreshResult.file,
            load |-> [ld EXCEPT !.phase = "returned", !.value = Null]]

\* poll(), first half, as it would be without the timeout test.
pollTick_noTimeout(session, now) ==
  [session EXCEPT !.phase = "inflight", !.issuedAt = now]

\* poll(), first half, as it would be if the waiting time were counted from
\* the last status check instead of from startTime.
pollTick_sinceLastCheck(session, now) ==
  IF now - session.issuedAt > session.max_wait_time * 1000
  THEN [session EXCEPT !.phase = "stopped", !.outcome = "timeout"]
  ELSE [session EXCEPT !.phase = "inflight", !.issuedAt = now]

\* poll(), first half: the timeout test and the status-check request.
pollTick(session, now) ==
  IF now - session.startTime > session.max_wait_time * 1000
  THEN [session EXCEPT !.phase = "stopped", !.outcome = "timeout"]
  ELSE [session EXCEPT !.phase = "inflight", !.issuedAt = now]

Reschedule(session, now) ==
  [session EXCEPT !.phase = "timer", !.due = now + session.check_interval * 1000]

\* The expiry as it would be with the one-hour lifetime of the auth-success
\* path.
PollExpiry_oneHour(now) == now + DefaultAuthLifetime * 1000

\* expires_at of the record poll() saves: Date.now() + 7 days.
PollExpiry(now) == now + SevenDays

\* poll(), second half, as it would be if an expired or unauthorized status
\* were treated like an unknown one.
pollResponse_retriesOnFailure(st, endpoint, i, response, now) ==
  LET session == st.sessions[i]
      set(s) == [st EXCEPT !.sessions[i] = s]
  IN  CASE response.shape # "json" -> set(Reschedule(session, now))
        [] response.status = "completed" /\ response.token = Null ->
             set(Reschedule(session, now))
        [] response.status = "completed" /\ response.token # Null ->
             [st EXCEPT
                !.file = saveToken(st.file, endpoint,
                           [access_token |-> response.token,
                            token_type |-> response.token_type,
                            expires_at |-> Some(PollExpiry(now)),
                            refresh_token |-> Null,
                            scope |-> Null],
                           now),
                !.token = response.token,
                !.sessions[i] = [session EXCEPT !.phase = "stopped",
                                                !.outcome = "completed",
                                                !.savedAt = Some(now)]]
        [] response.status \in {"expired", "unauthorized"} ->
             set([Reschedule(session, now) EXCEPT !.outcome = response.status])
        [] OTHER -> set(Reschedule(session, now))

\* poll(), second half: the status check was answered (or it failed).
pollResponse(st, endpoint, i, response, now) ==
  LET session == st.sessions[i]
      set(s) == [st EXCEPT !.sessions[i] = s]
  IN  CASE response.shape # "json" -> set(Reschedule(session, now))
        [] response.status = "completed" /\ response.token = Null ->
             \* response.token.substring throws: caught, retried
             set(Reschedule(session, now))
        [] response.status = "completed" /\ response.token # Null ->
             [st EXCEPT
                !.file = saveToken(st.file, endpoint,
                           [access_token |-> response.token,
                            token_type |-> response.token_type,
                            expires_at |-> Some(PollExpiry(now)),
                            refresh_token |-> Null,
                            scope |-> Null],
                           now),
                !.token = response.token,
                !.sessions[i] = [session EXCEPT !.phase = "stopped",
                                                !.outcome = "completed",
                                                !.savedAt = Some(now)]]
        [] response.status \in {"pending", "auth_code_generated"} ->
             set(Reschedule(session, now))
        [] response.status \in {"expired", "unauthorized"} ->
             set([session EXCEPT !.phase = "stopped", !.outcome = response.status])
        [] OTHER -> set(Reschedule(session, now))

\* ------------------------------------------------------------------ state
VARIABLES
  endpoint,             \* this.httpServiceUrl, as parsed
  envToken,             \* process.env.THETA_HEALTH_TOKEN (Null: not set)
  token,                \* this.token
  file,                 \* tokens.json
  file0,                \* tokens.json as it was when the process started
  lastBrowserOpenTime,  \* this.lastBrowserOpenTime
  now,                  \* Date.now()
  ticks,                \* clock steps taken
  startup,              \* "new" -> "constructed" -> "running", or "crashed"
  load,                 \* the loadCachedToken() call of the constructor
  inflight,             \* the request a ListTools/CallTool handler awaits
  sent,                 \* the request the last step put on the wire, if any
  returned,             \* what the last step returned to the client, if anything
  received,             \* the response the last step handled, if any
  sessions,             \* polling sessions, in the order they were started
  sigLog                \* browser-authorization signals handled so far

vars == <<endpoint, envToken, token, file, file0, lastBrowserOpenTime, now,
          ticks, startup, load, inflight, sent, returned, received, sessions,
          sigLog>>

\* ----------------------------------------------------------- input sets
\* A record as saveToken wrote it at time `at` for endpoint e.
StoredRecord(e, tok, expires, refresh, at) ==
  Stringify([access_token |-> tok, token_type |-> "Bearer",
             expires_at |-> expires, refresh_token |-> refresh,
             scope |-> Null, created_at |-> at, endpoint |-> e,
             environment |-> _getEnvironmentKey(e), last_used |-> at])

\* What tokens.json may hold for the proxy's own endpoint at startup:
\* nothing, a record that is still valid (one that expires during the run),
\* an expired record with a refresh token, an expired record without one.
OwnRecords(e) ==
  { NoRec,
    StoredRecord(e, "tokA", Epoch + TickMs + 1000, Null, Epoch - 50000),
    StoredRecord(e, "tokA", Epoch - 1000, "rt0", Epoch - 50000),
    StoredRecord(e, "tokA", Epoch - 1000, Null, Epoch - 50000) }

\* ... and for another endpoint.
OtherRecords(e) ==
  { NoRec, StoredRecord(e, "tokB", Epoch + SevenDays, "rtB", Epoch - 70000) }

InitialFiles(e) ==
  { f \in [Keys -> UNION {OwnRecords(x) \cup OtherRecords(x) : x \in Endpoints}
                     \cup {Metadata(Epoch - 50000)}] :
      /\ f[_getEnvironmentKey(e)] \in OwnRecords(e)
      /\ \A x \in Endpoints \ {e} :
           f[_getEnvironmentKey(x)] \in OtherRecords(x)
      /\ \A k \in Keys \ ({_getEnvironmentKey(x) : x \in Endpoints} \cup {MetaKey}) :
           f[k] = NoRec
      /\ f[MetaKey] = IF \A k \in Keys \ {MetaKey} : f[k] = NoRec
                      THEN NoRec ELSE Metadata(Epoch - 50000) }

ToolNames == {"get_health_data", "start_authentication"}

Idle == [active |-> FALSE, method |-> Null]
NoResult == [kind |-> "none", text |-> NoText]
Received(handler, response) == [by |-> handler, response |-> response]
NoResponse == Received("none", Response("none", PlainPayload))
NoLoad == [phase |-> "new", value |-> Null, refreshes |-> 0,
           refresh_token |-> Null]

CallResponses ==
  { Response("reject", PlainPayload), Response("null", PlainPayload),
    Response("noresult", PlainPayload), Response("empty", PlainPayload),
    Response("text", PlainPayload), Response("text", MalformedPayload),
    Response("text", NullPayload),
    Response("text", AuthPayload("tokN", None, Null)),
    Response("text", AuthPayload("tokN", Some(60), "rtN")),
    Response("text", BrowserPayload(Polling("s1", Some(5), Some(5)))),
    Response("text", BrowserPayload(NoPolling)) }

RefreshResponses ==
  { Response("reject", PlainPayload), Response("null", PlainPayload),
    Response("empty", PlainPayload), Response("text", MalformedPayload),
    Response("text", PlainPayload),
    Response("text", AuthPayload("tokR", Some(3600), Null)),
    Response("text", AuthPayload("tokR", None, "rtR")) }

StateChecks ==
  { StateCheck("reject", Null, Null), StateCheck("null", Null, Null),
    StateCheck("json", "completed", "tokP"), StateCheck("json", "completed", Null),
    StateCheck("json", "pending", Null),
    StateCheck("json", "auth_code_generated", Null),
    StateCheck("json", "expired", Null), StateCheck("json", "unauthorized", Null),
    StateCheck("json", "processing", Null) }

\* The state when the constructor reaches this.loadCachedToken(), for a
\* given THETA_HEALTH_TOKEN.
InitWith(env, endpoints, ownRecords) ==
  /\ endpoint \in endpoints
  /\ envToken = env
  /\ token = envToken                 \* process.env.THETA_HEALTH_TOKEN || null
  /\ file \in {f \in InitialFiles(endpoint) :
                f[_getEnvironmentKey(endpoint)] \in ownRecords}
  /\ file0 = file
  /\ lastBrowserOpenTime = 0
  /\ now = Epoch
  /\ ticks = 0
  /\ startup = "new"
  /\ load = NoLoad
  /\ inflight = Idle
  /\ sent = NoReq
  /\ returned = NoResult
  /\ received = NoResponse
  /\ sessions = <<>>
  /\ sigLog = <<>>

\* The same without THETA_HEALTH_TOKEN, for given pairs of an endpoint and
\* the contents of tokens.json.
InitFrom(starts) ==
  /\ \E st \in starts :
       /\ endpoint = st[1]
       /\ file = st[2]
  /\ envToken = Null
  /\ token = envToken
  /\ file0 = file
  /\ lastBrowserOpenTime = 0
  /\ now = Epoch
  /\ ticks = 0
  /\ startup = "new"
  /\ load = NoLoad
  /\ inflight = Idle
  /\ sent = NoReq
  /\ returned = NoResult
  /\ received = NoResponse
  /\ sessions = <<>>
  /\ sigLog = <<>>

\* ---------------------------------------------------------------- actions
\* new HttpMcpProxy(): this.loadCachedToken() up to its first await.  The
\* constructor drops the promise of the call, so a rejection of it is an
\* unhandled rejection, on which Node terminates the process before any
\* request is served.
LoadCachedToken ==
  /\ startup = "new"
  /\ LET r == loadCachedToken(token, file, endpoint, now)
     IN  /\ token' = r.token
         /\ file' = r.file
         /\ load' = r.load
         /\ sent' = r.req
         /\ startup' = IF r.load.phase = "threw" THEN "crashed" ELSE "constructed"
  /\ returned' = NoResult
  /\ received' = NoResponse
  /\ UNCHANGED <<endpoint, envToken, file0, lastBrowserOpenTime, now, ticks,
                 inflight, sessions, sigLog>>

\* The refresh request of loadCachedToken is answered or fails.
RefreshRespond(responses) ==
  /\ load.phase = "refreshing"
  /\ \E response \in responses :
       LET r == loadCachedTokenResume(token, file, load, endpoint, response, now)
       IN  /\ token' = r.token
           /\ file' = r.file
           /\ load' = r.load
           /\ received' = Received("refresh", response)
  /\ sent' = NoReq
  /\ returned' = NoResult
  /\ UNCHANGED <<endpoint, envToken, file0, lastBrowserOpenTime, now, ticks,
                 startup, inflight, sessions, sigLog>>

\* run(): the transport is connected and the token status is displayed.
Run ==
  /\ startup = "constructed"
  /\ startup' = "running"
  /\ file' = getTokenStatus(file, endpoint, now).file
  /\ sent' = NoReq
  /\ returned' = NoResult
  /\ received' = NoResponse
  /\ UNCHANGED <<endpoint, envToken, token, file0, lastBrowserOpenTime, now,
                 ticks, load, inflight, sessions, sigLog>>

\* The clock advances.
Tick ==
  /\ startup = "running"
  /\ ticks < MaxTicks
  /\ ticks' = ticks + 1
  /\ now' = now + TickMs
  /\ sent' = NoReq
  /\ returned' = NoResult
  /\ received' = NoResponse
  /\ UNCHANGED <<endpoint, envToken, token, file, file0, lastBrowserOpenTime,
                 startup, load, inflight, sessions, sigLog>>

\* ListTools handler, first half: the tools/list request is built and sent.
ListTools ==
  /\ startup = "running"
  /\ ~inflight.active
  /\ LET r == makeHttpRequest(endpoint, "tools/list", Null, token)
     IN  /\ r.sent
         /\ sent' = r.req
         /\ inflight' = [active |-> TRUE, method |-> "tools/list"]
  /\ returned' = NoResult
  /\ received' = NoResponse
  /\ UNCHANGED <<endpoint, envToken, token, file, file0, lastBrowserOpenTime,
                 now, ticks, startup, load, sessions, sigLog>>

\* ListTools handler, second half: the tools (or none) are returned.
ListRespond ==
  /\ inflight.active
  /\ inflight.method = "tools/list"
  /\ inflight' = Idle
  /\ sent' = NoReq
  /\ returned' = [kind |-> "tools", text |-> NoText]
  /\ received' = Received("list", Response("tools", PlainPayload))
  /\ UNCHANGED <<endpoint, envToken, token, file, file0, lastBrowserOpenTime,
                 now, ticks, startup, load, sessions, sigLog>>

\* CallTool handler, first half: the tools/call request is built and sent.
\* pending is the request the handler then awaits.
SendCall(pending) ==
  /\ startup = "running"
  /\ ~inflight.active
  /\ \E name \in ToolNames :
       LET r == makeHttpRequest(endpoint, "tools/call", name, token)
       IN  /\ sent' = r.req
           /\ IF r.sent
              THEN /\ inflight' = pending
                   /\ returned' = NoResult
              ELSE /\ inflight' = inflight
                   /\ returned' = [kind |-> "error", text |-> NoText]
  /\ received' = NoResponse
  /\ UNCHANGED <<endpoint, envToken, token, file, file0, lastBrowserOpenTime,
                 now, ticks, startup, load, sessions, sigLog>>

CallTool == SendCall([active |-> TRUE, method |-> "tools/call"])

\* The same, keeping the time at which req.setTimeout(10000) armed the idle
\* timer of the request.
CallToolTimed ==
  SendCall([active |-> TRUE, method |-> "tools/call", armedAt |-> now])

\* The idle timer of the pending tools/call request fires: the request
\* emits 'timeout'.  No listener is registered for it and the request is not
\* destroyed, so the promise of makeHttpRequest stays pending.
RequestTimeout ==
  /\ inflight.active
  /\ "armedAt" \in DOMAIN inflight
  /\ "timeout" \notin DOMAIN inflight
  /\ now >= inflight.armedAt + RequestTimeoutMs
  /\ inflight' = SetField(inflight, "timeout", "emitted")
  /\ sent' = NoReq
  /\ returned' = NoResult
  /\ received' = NoResponse
  /\ UNCHANGED <<endpoint, envToken, token, file, file0, lastBrowserOpenTime,
                 now, ticks, startup, load, sessions, sigLog>>

\* CallTool handler, second half: the response is intercepted and the
\* result returned.  maxSessions caps the polling sessions of a run.
CallRespondUpTo(responses, maxSessions) ==
  /\ inflight.active
  /\ inflight.method = "tools/call"
  /\ \E response \in responses :
       LET st == Intercept(ProxyState(token, file, lastBrowserOpenTime,
                                      sessions, sigLog),
                           endpoint, response, now)
       IN  /\ Len(st.sigLog) <= MaxSignals
           /\ Len(st.sessions) <= maxSessions
           /\ token' = st.token
           /\ file' = st.file
           /\ lastBrowserOpenTime' = st.lastBrowserOpenTime
           /\ sessions' = st.sessions
           /\ sigLog' = st.sigLog
           /\ returned' = CallToolResult(response)
           /\ received' = Received("call", response)
  /\ inflight' = Idle
  /\ sent' = NoReq
  /\ UNCHANGED <<endpoint, envToken, file0, now, ticks, startup, load>>

CallRespond(responses) == CallRespondUpTo(responses, MaxSessions)

\* The timer of a polling session fires.
PollTick ==
  /\ \E i \in 1..Len(sessions) :
       /\ sessions[i].phase = "timer"
       /\ now >= sessions[i].due
       /\ sessions' = [sessions EXCEPT ![i] = pollTick(sessions[i], now)]
  /\ sent' = NoReq
  /\ returned' = NoResult
  /\ received' = NoResponse
  /\ UNCHANGED <<endpoint, envToken, token, file, file0, lastBrowserOpenTime,
                 now, ticks, startup, load, inflight, sigLog>>

\* The idle timer of a pending status-check request fires: as for
\* makeHttpRequest, 'timeout' is emitted and nothing listens.
PollTimeout ==
  /\ \E i \in 1..Len(sessions) :
       /\ sessions[i].phase = "inflight"
       /\ "timeout" \notin DOMAIN sessions[i]
       /\ now >= sessions[i].issuedAt + RequestTimeoutMs
       /\ sessions' = [sessions EXCEPT
                         ![i] = SetField(sessions[i], "timeout", "emitted")]
  /\ sent' = NoReq
  /\ returned' = NoResult
  /\ received' = NoResponse
  /\ UNCHANGED <<endpoint, envToken, token, file, file0, lastBrowserOpenTime,
                 now, ticks, startup, load, inflight, sigLog>>

\* The status check of a polling session is answered or fails.
PollRespond(checks) ==
  /\ \E i \in 1..Len(sessions) :
       /\ sessions[i].phase = "inflight"
       /\ \E response \in checks :
            LET st == pollResponse(ProxyState(token, file, lastBrowserOpenTime,
                                              sessions, sigLog),
                                   endpoint, i, response, now)
            IN  /\ token' = st.token
                /\ file' = st.file
                /\ sessions' = st.sessions
                /\ received' = Received("poll", response)
  /\ sent' = NoReq
  /\ returned' = NoResult
  /\ UNCHANGED <<endpoint, envToken, file0, lastBrowserOpenTime, now, ticks,
                 startup, load, inflight, sigLog>>

\* The process ends and is started again: whatever was in memory (the
\* cached token, requests in flight, polling sessions, the time of the last
\* browser open) is lost and tokens.json is what the last run left.
Restart ==
  /\ startup \in {"constructed", "running"}
  /\ ticks < MaxTicks
  /\ ticks' = ticks + 1
  /\ now' = now + TickMs
  /\ token' = envToken
  /\ lastBrowserOpenTime' = 0
  /\ startup' = "new"
  /\ load' = NoLoad
  /\ inflight' = Idle
  /\ sent' = NoReq
  /\ returned' = NoResult
  /\ received' = NoResponse
  /\ sessions' = <<>>
  /\ sigLog' = <<>>
  /\ UNCHANGED <<endpoint, envToken, file, file0>>

\* ---------------------------------------------------------- specifications
\* Each specification runs the whole proxy against a remote service that
\* answers from a given set of responses.

\* Startup, token intake and the credential store: every startup content
\* of tokens.json for either endpoint; the remote answers tool calls with
\* failures, plain or malformed content, auth-success signals and
\* browser-authorization signals that ask for no polling.
StoreResponses ==
  { r \in CallResponses :
      ~(r.shape = "text" /\ r.payload.auto_polling.present) }

Init == InitWith(Null, Endpoints, OwnRecords(endpoint))

Next ==
  \/ LoadCachedToken
  \/ RefreshRespond(RefreshResponses)
  \/ Run
  \/ Tick
  \/ ListTools
  \/ ListRespond
  \/ CallTool
  \/ CallRespond(StoreResponses)

Spec == Init /\ [][Next]_vars

\* The same with THETA_HEALTH_TOKEN set: loadCachedToken returns at once
\* and no refresh is ever requested.
InitOverride == InitWith("tokE", Endpoints, OwnRecords(endpoint))

NextOverride ==
  \/ LoadCachedToken
  \/ Run
  \/ Tick
  \/ ListTools
  \/ ListRespond
  \/ CallTool
  \/ CallRespond(StoreResponses)

SpecOverride == InitOverride /\ [][NextOverride]_vars

\* The browser-authorization flow: tokens.json holds nothing or a valid
\* record for the endpoint; the remote answers tool calls with plain
\* content, an auth-success signal or a browser-authorization signal (with
\* or without polling), and answers status checks in every way.
FlowEndpoints == {[valid |-> TRUE, hostname |-> <<"a", ".", "b">>]}

FlowRecords(e) == {r \in OwnRecords(e) : ~IsRec(r) \/ ~IsExpired(r, Epoch)}

FlowResponses ==
  { Response("text", PlainPayload),
    Response("text", AuthPayload("tokN", None, Null)),
    Response("text", BrowserPayload(Polling("s1", Some(5), Some(5)))),
    Response("text", BrowserPayload(NoPolling)) }

InitFlow == InitWith(Null, FlowEndpoints, FlowRecords(endpoint))

NextFlow ==
  \/ LoadCachedToken
  \/ Run
  \/ Tick
  \/ CallTool
  \/ CallRespond(FlowResponses)
  \/ PollTick
  \/ PollRespond(StateChecks)

SpecFlow == InitFlow /\ [][NextFlow]_vars

\* Two proxies sharing tokens.json: the proxy of some other endpoint saved
\* its token before this one started.  The remote answers tool calls with
\* plain content, an auth-success signal or a browser-authorization signal.
SavedByOther(other) ==
  saveToken(EmptyFile, other,
            [access_token |-> "tokB", token_type |-> "Bearer",
             expires_at |-> Some(Epoch + SevenDays), refresh_token |-> "rtB",
             scope |-> Null],
            Epoch - 70000)

KeyResponses ==
  { Response("text", PlainPayload),
    Response("text", AuthPayload("tokN", None, Null)),
    Response("text", BrowserPayload(NoPolling)) }

KeyFiles(e) == {SavedByOther(other) : other \in KeyEndpoints \ {e}}

InitKeys ==
  InitFrom(UNION {{<<e, f>> : f \in KeyFiles(e)} : e \in KeyEndpoints})

NextKeys ==
  \/ LoadCachedToken
  \/ Run
  \/ Tick
  \/ CallTool
  \/ CallRespond(KeyResponses)

SpecKeys == InitKeys /\ [][NextKeys]_vars

\* The startup refresh racing with token intake: tokens.json holds an
\* expired record with a refresh token, so the constructor leaves a refresh
\* request in flight while run() connects the transport and tool calls are
\* served; the process may be stopped and started again on the tokens.json
\* it left.  The remote answers the refresh with a failure or with success
\* (a short lifetime, no lifetime, no access token, an empty access token)
\* and answers tool calls with failures, plain or malformed content, an
\* auth-success signal or a browser-authorization signal.
RefreshRecords(e) ==
  {r \in OwnRecords(e) :
     IsRec(r) /\ IsExpired(r, Epoch) /\ Truthy(Field(r, "refresh_token"))}

RaceCallResponses ==
  KeyResponses \cup
  { Response("reject", PlainPayload), Response("null", PlainPayload),
    Response("text", MalformedPayload) }

RaceRefreshResponses ==
  { Response("reject", PlainPayload),
    Response("text", AuthPayload("tokR", Some(60), "rtR")),
    Response("text", AuthPayload("tokR", None, Null)),
    Response("text", AuthPayload(Null, Some(3600), Null)),
    Response("text", AuthPayload("", Some(3600), Null)) }

RaceFiles(e) ==
  {f \in InitialFiles(e) : f[_getEnvironmentKey(e)] \in RefreshRecords(e)}

InitRace ==
  InitFrom(UNION {{<<e, f>> : f \in RaceFiles(e)} : e \in FlowEndpoints})

NextRace ==
  \/ LoadCachedToken
  \/ RefreshRespond(RaceRefreshResponses)
  \/ Run
  \/ Tick
  \/ CallTool
  \/ CallRespond(RaceCallResponses)
  \/ Restart

SpecRace == InitRace /\ [][NextRace]_vars

\* Requests the remote may never answer.  The event loop runs every timer
\* that is due and the clock keeps advancing, so these steps are fair; an
\* answer of the remote is not.  tokens.json holds no record for the
\* endpoint; tool calls are answered with plain content or a
\* browser-authorization signal that asks for polling.
LiveFiles(e) == {f \in InitialFiles(e) : f = EmptyFile}

LiveResponses ==
  { Response("text", PlainPayload),
    Response("text", BrowserPayload(Polling("s1", Some(5), Some(5)))) }

LiveChecks ==
  { StateCheck("reject", Null, Null), StateCheck("json", "pending", Null),
    StateCheck("json", "completed", "tokP"), StateCheck("json", "expired", Null) }

InitLive ==
  InitFrom(UNION {{<<e, f>> : f \in LiveFiles(e)} : e \in FlowEndpoints})

NextLive ==
  \/ LoadCachedToken
  \/ Run
  \/ Tick
  \/ CallToolTimed
  \/ CallRespond(LiveResponses)
  \/ RequestTimeout
  \/ PollTick
  \/ PollRespond(LiveChecks)
  \/ PollTimeout

SpecLive ==
  /\ InitLive
  /\ [][NextLive]_vars
  /\ WF_vars(LoadCachedToken)
  /\ WF_vars(Run)
  /\ WF_vars(Tick)
  /\ WF_vars(RequestTimeout)
  /\ WF_vars(PollTick)
  /\ WF_vars(PollTimeout)

\* Repeated browser-authorization signals for one correlation id: tool
\* calls are answered with a signal that asks for polling of state s1, or
\* with plain content; status checks are answered pending or completed.
\* One session more than elsewhere may be started.
RepeatResponses ==
  { Response("text", PlainPayload),
    Response("text", BrowserPayload(Polling("s1", Some(5), Some(5)))) }

RepeatChecks ==
  { StateCheck("json", "pending", Null), StateCheck("json", "completed", "tokP") }

InitRepeat ==
  InitFrom(UNION {{<<e, f>> : f \in LiveFiles(e)} : e \in FlowEndpoints})

NextRepeat ==
  \/ LoadCachedToken
  \/ Run
  \/ Tick
  \/ CallTool
  \/ CallRespondUpTo(RepeatResponses, MaxSessions + 1)
  \/ PollTick
  \/ PollRespond(RepeatChecks)

SpecRepeat == InitRepeat /\ [][NextRepeat]_vars

\* Polling sessions under the scheduling the event loop gives them: time
\* passes, a timer that is due runs its callback, and every status check is
\* answered or fails.  Signals ask for polling of s1 every 5 seconds for at
\* most 5 seconds, or of s2 for at most 8 seconds at the default interval;
\* status checks get any of the answers of StateChecks.
PollResponses ==
  { Response("text", PlainPayload),
    Response("text", BrowserPayload(Polling("s1", Some(5), Some(5)))),
    Response("text", BrowserPayload(Polling("s2", None, Some(8)))) }

InitPoll ==
  InitFrom(UNION {{<<e, f>> : f \in LiveFiles(e)} : e \in FlowEndpoints})

NextPoll ==
  \/ LoadCachedToken
  \/ Run
  \/ Tick
  \/ CallTool
  \/ CallRespond(PollResponses)
  \/ PollTick
  \/ PollRespond(StateChecks)

SpecPoll ==
  /\ InitPoll
  /\ [][NextPoll]_vars
  /\ WF_vars(LoadCachedToken)
  /\ WF_vars(Run)
  /\ WF_vars(Tick)
  /\ WF_vars(PollTick)
  /\ WF_vars(PollRespond(StateChecks))

\* ------------------------------------------------------------------ claims
OwnKey == _getEnvironmentKey(endpoint)
OtherKeys == Keys \ {OwnKey, MetaKey}

\* C2: whatever tokens.json holds, a step of the proxy (saveToken, clearToken
\* and loadToken are its only writers, all for the proxy's own key A) leaves
\* the record stored under every other environment key B exactly as it was;
\* only A's record and the _metadata block may differ.
C2_OtherRecordsUnchanged ==
  [][\A k \in OtherKeys : file'[k] = file[k]]_vars

\* C2 witness: another environment's record is stored, and the proxy's own
\* record was loaded (written back at startup), cleared by a browser signal
\* and saved again.
C2_Witness ==
  /\ \E k \in OtherKeys : IsRec(file[k])
  /\ IsRec(file0[OwnKey]) /\ ~IsExpired(file0[OwnKey], Epoch)
  /\ Len(sigLog) > 0 /\ sigLog[1].opened
  /\ IsRec(file[OwnKey])
  /\ file[OwnKey].created_at > sigLog[1].time

\* C5: with no THETA_HEALTH_TOKEN and a stored record for the proxy's key
\* whose expiry lies in the future, loadCachedToken returns the record's
\* access token, makes it this.token and issues no request (no refresh).
HadValidRecord ==
  /\ ~Truthy(envToken)
  /\ IsRec(file0[OwnKey])
  /\ file0[OwnKey].expires_at > Epoch

C5_ValidRecordLoadsWithoutNetwork ==
  (startup # "new" /\ HadValidRecord) =>
     /\ load.phase = "returned"
     /\ load.value = file0[OwnKey].access_token
     /\ load.refreshes = 0
     /\ (startup = "constructed" =>
           token = file0[OwnKey].access_token /\ sent = NoReq)

C5_Witness ==
  /\ startup = "constructed"
  /\ HadValidRecord
  /\ token = "tokA"
  /\ load.phase = "returned"

\* C6: for a stored record that is expired and has a refresh token, a
\* refresh that fails (network error, invalid response, success flag not
\* set) changes neither tokens.json nor this.token, loadCachedToken returns
\* null, and that load makes no further refresh attempt; with nothing else
\* having run in between the file is still what it was at startup and
\* this.token is still absent.
RefreshFailures ==
  { r \in RefreshResponses :
      r.shape # "text" \/ r.payload.parse # "obj" \/ r.payload.success = "none" }

RefreshFailed ==
  received.by = "refresh" /\ received.response \in RefreshFailures

C6_FailedRefreshChangesNothing ==
  /\ []((startup = "constructed" /\ RefreshFailed) =>
          file = file0 /\ token = Null /\ IsExpired(file[OwnKey], now))
  /\ [][RefreshFailed' =>
          /\ file' = file
          /\ token' = token
          /\ load'.phase = "returned"
          /\ load'.value = Null
          /\ load'.refreshes = 1
          /\ sent' = NoReq]_vars
  /\ [][load.phase = "returned" => load' = load]_vars

C6_Witness ==
  /\ RefreshFailed
  /\ startup = "constructed"
  /\ IsRec(file[OwnKey])
  /\ Truthy(Field(file[OwnKey], "refresh_token"))
  /\ load.phase = "returned"

\* C7: a tool-call response whose content text is not JSON makes the
\* call-tool handler return the remote content as it is (it does not end in
\* its catch block), and neither the token path nor the browser path runs:
\* this.token, tokens.json, lastBrowserOpenTime and the polling sessions
\* are unchanged.
MalformedText(r) == r.shape = "text" /\ r.payload.parse = "bad"

C7_MalformedPassesThrough ==
  /\ []((received.by = "call" /\ MalformedText(received.response)) =>
          returned = [kind |-> "content", text |-> received.response.payload])
  /\ [][(received'.by = "call" /\ MalformedText(received'.response)) =>
          UNCHANGED <<token, file, lastBrowserOpenTime, sessions, sigLog>>]_vars

C7_Witness ==
  /\ received.by = "call"
  /\ MalformedText(received.response)
  /\ returned.kind = "content"
  /\ Truthy(token)

\* C10: a request for a listing method, or a tools/call of a tool on the
\* allow-list, carries no Authorization header even when a token is cached;
\* any other request carries 'Bearer <token>' exactly when this.token is
\* present.
ListingMethods == {"tools/list", "resources/list", "prompts/list"}
Methods == ListingMethods \cup {"tools/call", "resources/read"}
Names == ToolNames \cup AuthNotRequiredTools \cup {Null}

ExpectedAuthorization(method, name, tok) ==
  IF method \in ListingMethods THEN Null
  ELSE IF method = "tools/call" /\ name \in AuthNotRequiredTools THEN Null
  ELSE IF Truthy(tok) THEN "Bearer " \o tok
  ELSE Null

C10_AuthorizationHeader ==
  /\ sent # NoReq =>
       sent.auth = ExpectedAuthorization(sent.method, sent.name, token)
  /\ \A m \in Methods, n \in Names :
       makeHttpRequest(endpoint, m, n, token).req.auth
         = ExpectedAuthorization(m, n, token)

C10_Witness ==
  /\ sent.method = "tools/call"
  /\ sent.name = "start_authentication"
  /\ Truthy(token)
  /\ sent.auth = Null

\* C9: with THETA_HEALTH_TOKEN set, this.token is the override token in
\* every reachable state, every request that needs authentication carries
\* it, and the stored credential of the endpoint is never written or cleared
\* (the last_used and _metadata bookkeeping aside).
Credential(r) ==
  IF IsRec(r) THEN [f \in (DOMAIN r) \ {"last_used"} |-> r[f]] ELSE NoRec

C9_OverrideBypassesLifecycle ==
  Truthy(envToken) =>
    /\ token = envToken
    /\ Credential(file[OwnKey]) = Credential(file0[OwnKey])
    /\ (sent # NoReq /\ needsAuth(sent.method, sent.name)) =>
         sent.auth = "Bearer " \o envToken

\* C1 as claimed: of any two browser-authorization signals handled less
\* than 10 seconds apart, the first invokes exec and the second does not.
CloseSignals(i, j) ==
  /\ i < j
  /\ sigLog[j].time - sigLog[i].time < browserOpenDebounceTime

C1_AnyTwoCloseSignalsOpenOnce ==
  \A i, j \in 1..Len(sigLog) :
     CloseSignals(i, j) => sigLog[i].opened /\ ~sigLog[j].opened

\* C1 as amended: the first signal of the process invokes exec, and of any
\* two signals handled less than 10 seconds apart of which the first invoked
\* exec, the second does not and exec was invoked exactly once from the
\* first to the second.
C1_SecondSignalAfterOpenIsDebounced ==
  /\ Len(sigLog) > 0 => sigLog[1].opened
  /\ \A i, j \in 1..Len(sigLog) :
       (CloseSignals(i, j) /\ sigLog[i].opened) =>
          /\ ~sigLog[j].opened
          /\ Cardinality({k \in i..j : sigLog[k].opened}) = 1

C1_Witness ==
  /\ Len(sigLog) >= 2
  /\ sigLog[1].opened
  /\ ~sigLog[2].opened
  /\ sigLog[2].time > sigLog[1].time
  /\ CloseSignals(1, 2)

\* C8: whenever a browser-authorization signal is handled outside the
\* debounce window, this.token and the stored record of the endpoint are
\* both absent when exec is called and when polling is started.
C8_ClearedBeforeOpenAndPoll ==
  \A i \in 1..Len(sigLog) :
     sigLog[i].opened =>
        /\ sigLog[i].clearedAtExec
        /\ sigLog[i].polled => sigLog[i].clearedAtPoll

\* C8 witness: a record was stored and loaded at startup, and the first
\* signal opened the browser and started polling.
C8_Witness ==
  /\ HadValidRecord
  /\ Len(sigLog) > 0
  /\ sigLog[1].opened
  /\ sigLog[1].polled
  /\ sigLog[1].clearedAtExec

\* C3 as claimed: a session saves no record later than max_wait_time
\* seconds after it started.
Deadline(s) == s.startTime + s.max_wait_time * 1000

C3_NoSaveAfterMaxWait ==
  \A i \in 1..Len(sessions) :
     sessions[i].savedAt # None => sessions[i].savedAt[1] <= Deadline(sessions[i])

\* C3 as amended: a poll tick that runs more than max_wait_time seconds
\* after the session started stops the session with the timeout outcome
\* and changes neither tokens.json nor this.token; a stopped session never
\* changes again; a session that timed out saved nothing; and a record is
\* saved only in answer to a status check issued no later than start +
\* max_wait_time.
C3_TimeoutStopsWithoutSaving ==
  /\ [](\A i \in 1..Len(sessions) :
          /\ sessions[i].outcome = "timeout" => sessions[i].savedAt = None
          /\ sessions[i].savedAt # None =>
               sessions[i].issuedAt <= Deadline(sessions[i]))
  /\ [][\A i \in 1..Len(sessions) :
          /\ (sessions[i].phase = "timer" /\ sessions'[i] # sessions[i]
              /\ now - sessions[i].startTime > sessions[i].max_wait_time * 1000) =>
                /\ sessions'[i].phase = "stopped"
                /\ sessions'[i].outcome = "timeout"
                /\ token' = token
                /\ file' = file
          /\ sessions[i].phase = "stopped" => sessions'[i] = sessions[i]]_vars

\* C3 witness: a session checked the status at least once, saw nothing
\* terminal and timed out.
C3_Witness ==
  \E i \in 1..Len(sessions) :
     /\ sessions[i].outcome = "timeout"
     /\ sessions[i].issuedAt > sessions[i].startTime
     /\ sessions[i].savedAt = None

\* C4 as claimed: when a status check returns completed with token T, the
\* session stops, the stored record and this.token hold T, and the record
\* expires 7 days after the session started.
PollCompleted ==
  /\ received.by = "poll"
  /\ received.response.shape = "json"
  /\ received.response.status = "completed"
  /\ received.response.token # Null

C4_ExpiryIsStartPlusSevenDays ==
  PollCompleted =>
    \E i \in 1..Len(sessions) :
       /\ sessions[i].phase = "stopped"
       /\ sessions[i].outcome = "completed"
       /\ sessions[i].savedAt = Some(now)
       /\ IsRec(file[OwnKey])
       /\ file[OwnKey].access_token = received.response.token
       /\ token = received.response.token
       /\ file[OwnKey].expires_at = sessions[i].startTime + SevenDays

\* C4 as amended: ... and the record expires 7 days after the moment the
\* completed status is handled.
C4_ExpiryIsCompletionPlusSevenDays ==
  PollCompleted =>
    \E i \in 1..Len(sessions) :
       /\ sessions[i].phase = "stopped"
       /\ sessions[i].outcome = "completed"
       /\ sessions[i].savedAt = Some(now)
       /\ IsRec(file[OwnKey])
       /\ file[OwnKey].access_token = received.response.token
       /\ token = received.response.token
       /\ file[OwnKey].expires_at = now + SevenDays

C4_Witness ==
  /\ PollCompleted
  /\ token = "tokP"
  /\ IsRec(file[OwnKey])
  /\ file[OwnKey].access_token = "tokP"

\* C11: handling an auth-success signal whose access token equals this.token
\* writes nothing to tokens.json and changes no state of the proxy; handling
\* one auth-success response twice in a row (even at different times) leaves
\* the state the first handling left, the first handling having written the
\* store when the token was new.
AuthSignals == {r \in CallResponses : isTokenAuthResponse(r)}

C11_SameTokenWritesNothing ==
  /\ [](\A r \in AuthSignals :
          LET st == ProxyState(token, file, lastBrowserOpenTime, sessions, sigLog)
              once == handleTokenAuthResponse(st, endpoint, r, now)
              twice == handleTokenAuthResponse(once, endpoint, r, now + TickMs)
          IN  /\ twice = once
              /\ r.payload.access_token = token => once = st
              /\ r.payload.access_token # token =>
                    /\ once.file # st.file
                    /\ once.file[OwnKey].access_token = r.payload.access_token
                    /\ once.token = r.payload.access_token)
  /\ [][(/\ received'.by = "call"
          /\ isTokenAuthResponse(received'.response)
          /\ received'.response.payload.access_token = token) =>
            UNCHANGED <<token, file, lastBrowserOpenTime, sessions, sigLog>>]_vars

\* C11 witness: the signal was handled a second time, later than the write
\* of the first handling, and the stored record is still the first one.
C11_Witness ==
  /\ received.by = "call"
  /\ isTokenAuthResponse(received.response)
  /\ received.response.payload.access_token = token
  /\ IsRec(file[OwnKey])
  /\ file[OwnKey].access_token = token
  /\ file[OwnKey].created_at < now
  /\ file[OwnKey].created_at > Epoch

\* C12 as claimed: the record written for an auth-success signal or a
\* successful refresh expires at now + the declared lifetime (in seconds),
\* and at now + 7 days when the payload declares none.
Lifetimes == {None, Some(0), Some(60), Some(3600)}

ClaimedExpiry(lifetime, t) ==
  IF lifetime = None THEN t + SevenDays ELSE t + lifetime[1] * 1000

NewTokenSignal ==
  /\ received'.by = "call"
  /\ isTokenAuthResponse(received'.response)
  /\ received'.response.payload.access_token # token

RefreshOk(r) ==
  r.shape = "text" /\ r.payload.parse = "obj" /\ r.payload.success # "none"

RefreshSucceeded ==
  received'.by = "refresh" /\ RefreshOk(received'.response)

C12_ExpiryIsLifetimeOrSevenDays ==
  /\ [][NewTokenSignal =>
          file'[OwnKey].expires_at
            = ClaimedExpiry(received'.response.payload.expires_in, now)]_vars
  /\ [][RefreshSucceeded =>
          file'[OwnKey].expires_at
            = ClaimedExpiry(received'.response.payload.expires_in, now)]_vars

\* C12 as amended: after an auth-success signal the record expires at now +
\* the declared lifetime, and at now + 3600 s when the lifetime is omitted
\* or zero; after a successful refresh it expires at now + the declared
\* lifetime, and at now + 7 days when the lifetime is omitted.
AuthSignalExpiry(lifetime, t) ==
  IF lifetime = None \/ lifetime[1] = 0
  THEN t + DefaultAuthLifetime * 1000
  ELSE t + lifetime[1] * 1000

C12_ExpiryPerPath ==
  /\ [](\A lifetime \in Lifetimes :
          LET st == ProxyState(Null, file, lastBrowserOpenTime, sessions, sigLog)
              signal == Response("text", AuthPayload("tokN", lifetime, Null))
              applied == handleTokenAuthResponse(st, endpoint, signal, now)
              refreshed == refreshToken(file, endpoint, "rt0", signal, now)
          IN  /\ applied.file[OwnKey].expires_at = AuthSignalExpiry(lifetime, now)
              /\ refreshed.ok
              /\ refreshed.file[OwnKey].expires_at = ClaimedExpiry(lifetime, now))
  /\ [][NewTokenSignal =>
          file'[OwnKey].expires_at
            = AuthSignalExpiry(received'.response.payload.expires_in, now)]_vars
  /\ [][RefreshSucceeded =>
          file'[OwnKey].expires_at
            = ClaimedExpiry(received'.response.payload.expires_in, now)]_vars

\* C12 witness: a refresh that declared no lifetime was saved at startup
\* with the 7-day fallback, and an auth-success signal that declared none
\* has since been saved with the one-hour default.
C12_Witness ==
  /\ load.refreshes = 1
  /\ load.value = "tokR"
  /\ received.by = "call"
  /\ isTokenAuthResponse(received.response)
  /\ received.response.payload.expires_in = None
  /\ file[OwnKey].access_token = "tokN"
  /\ file[OwnKey].created_at = now
  /\ file[OwnKey].expires_at = now + DefaultAuthLifetime * 1000

\* C13: any two endpoints with different hosts (an endpoint that does not
\* parse included) get different environment keys, none of them the
\* reserved _metadata key; so the record another endpoint's proxy saved is
\* in the store under that endpoint's key, and whatever this proxy loads,
\* saves or clears leaves it as it was.
SavedBy(e) == {k \in Keys : IsRec(file0[k]) /\ Field(file0[k], "endpoint") = e}

C13_KeysPartitionStorage ==
  /\ \A e1, e2 \in KeyEndpoints :
       e1 # e2 => _getEnvironmentKey(e1) # _getEnvironmentKey(e2)
  /\ \A e \in KeyEndpoints : _getEnvironmentKey(e) # MetaKey
  /\ \E other \in KeyEndpoints \ {endpoint} :
       /\ SavedBy(other) = {_getEnvironmentKey(other)}
       /\ file[_getEnvironmentKey(other)] = file0[_getEnvironmentKey(other)]

\* C14: in every reachable state, when getTokenStatus reports the stored
\* record of the endpoint as valid, the record has a non-empty access
\* token.
C14_ValidRecordHasAccessToken ==
  getTokenStatus(file, endpoint, now).status = "valid" =>
     Truthy(Field(file[OwnKey], "access_token"))

\* C15: the expiry a successful refresh writes is greater than or equal to
\* the expiry of the record it overwrites.
C15_RefreshNeverLowersExpiry ==
  [][(RefreshSucceeded /\ IsRec(file[OwnKey])) =>
       file'[OwnKey].expires_at >= file[OwnKey].expires_at]_vars

\* C16: when a status check of a polling session returns expired or
\* unauthorized, handling it changes neither this.token nor tokens.json and
\* stops the session: no timer is pending and no check is in flight, and
\* from then on the session never changes again (no further check, no
\* timer, no saved record).
FailedStatuses == {"expired", "unauthorized"}

C16_FailedSessionStops ==
  /\ [](\A i \in 1..Len(sessions) :
          sessions[i].outcome \in FailedStatuses =>
             /\ sessions[i].phase = "stopped"
             /\ sessions[i].savedAt = None)
  /\ [][(/\ received'.by = "poll"
          /\ received'.response.shape = "json"
          /\ received'.response.status \in FailedStatuses) =>
            /\ UNCHANGED <<token, file>>
            /\ \E i \in 1..Len(sessions) :
                 /\ sessions[i].phase = "inflight"
                 /\ sessions'[i].phase = "stopped"
                 /\ sessions'[i].outcome = received'.response.status]_vars
  /\ [][\A i \in 1..Len(sessions) :
          sessions[i].outcome \in FailedStatuses => sessions'[i] = sessions[i]]_vars

\* C16 witness: a session was told unauthorized and the clock has since
\* moved past the moment its next check would have been due.
C16_Witness ==
  \E i \in 1..Len(sessions) :
     /\ sessions[i].outcome = "unauthorized"
     /\ sessions[i].phase = "stopped"
     /\ now >= sessions[i].issuedAt + sessions[i].check_interval * 1000
     /\ ~Truthy(token)

\* C17: a tool call whose request fails (the connection fails, the body is
\* not JSON, the endpoint does not parse) returns an error text to the
\* caller, a tool call whose response was handled returns a result whatever
\* the interceptors made of it, and the process is never terminated.
FailedRequest(r) == r.shape \in {"reject", "null"}

C17_FailuresReturnAndNeverCrash ==
  /\ (received.by = "call" /\ FailedRequest(received.response)) =>
        returned.kind = "error"
  /\ received.by = "call" => returned.kind # "none"
  /\ startup # "crashed"

\* C18: a tools/call request that is pending is eventually settled (the
\* handler returns), and a status check that is pending is eventually
\* settled (the session reschedules or stops), whether or not the remote
\* ever answers: 10 seconds after it was sent the request is rejected.
C18_PendingRequestsAreSettled ==
  /\ inflight.active ~> ~inflight.active
  /\ \A i \in 1..MaxSessions :
       (Len(sessions) >= i /\ sessions[i].phase = "inflight")
         ~> (Len(sessions) >= i /\ sessions[i].phase # "inflight")

\* C19: a request never carries in its Authorization header a token whose
\* stored record has expired: once the clock has passed the expiry of the
\* record this.token came from, requests that need authentication go out
\* without that token until a refresh or a new authorization replaces it.
TokenRecordExpired ==
  /\ Truthy(token)
  /\ IsRec(file[OwnKey])
  /\ Field(file[OwnKey], "access_token") = token
  /\ IsExpired(file[OwnKey], now)

C19_ExpiredTokenIsNotAttached ==
  (sent # NoReq /\ TokenRecordExpired) => sent.auth # "Bearer " \o token

\* C20: once a browser-authorization signal has opened the browser and the
\* credential is absent (both this.token and the stored record), a step
\* installs a credential only if it handles an auth-success signal or the
\* completed status of a polling session started by the latest flow; in
\* particular neither the answer to the startup refresh nor a session of
\* an earlier flow installs one.
CredentialAbsent == ~Truthy(token) /\ ~IsRec(file[OwnKey])

TokenInstalled ==
  \/ Truthy(token')
  \/ IsRec(file'[OwnKey]) /\ Truthy(Field(file'[OwnKey], "access_token"))

Opened == {k \in 1..Len(sigLog) : sigLog[k].opened}
LatestOpenTime == sigLog[CHOOSE k \in Opened : \A j \in Opened : j <= k].time

InstalledByNewFlow ==
  \/ received'.by = "call" /\ isTokenAuthResponse(received'.response)
  \/ /\ received'.by = "poll"
     /\ \E i \in 1..Len(sessions) :
          /\ sessions[i].savedAt = None
          /\ sessions'[i].savedAt # None
          /\ sessions[i].startTime >= LatestOpenTime

C20_OnlyNewFlowInstalls ==
  [][(Opened # {} /\ CredentialAbsent /\ TokenInstalled) =>
       InstalledByNewFlow]_vars

\* C21: a browser-authorization signal handled inside the debounce window
\* changes neither this.token nor tokens.json and starts no polling
\* session, so no two sessions that are still running poll the same
\* correlation id (state).
Running(s) == s.phase # "stopped"

DebouncedSignal ==
  /\ received'.by = "call"
  /\ isAutoOpenBrowserResponse(received'.response)
  /\ InDebounceWindow(now, lastBrowserOpenTime)

C21_DebouncedSignalStartsNoSession ==
  /\ [](\A k \in 1..Len(sigLog) : ~sigLog[k].opened => ~sigLog[k].polled)
  /\ [](\A i, j \in 1..Len(sessions) :
          (i < j /\ Running(sessions[i]) /\ Running(sessions[j])) =>
             sessions[i].state # sessions[j].state)
  /\ [][DebouncedSignal => UNCHANGED <<token, file, sessions>>]_vars

\* C23: the debounce window runs from the last exec of the browser command,
\* not from the last signal.  this.lastBrowserOpenTime is 0 until the first
\* exec and the time of the latest exec afterwards; a signal is debounced
\* exactly when it is handled less than 10 seconds after that time, whatever
\* signals came in between, and a signal handled 10 seconds or more after it
\* invokes exec with the credential cleared.
OpenedBefore(j) == {k \in 1..(j - 1) : sigLog[k].opened}

LastOpenBefore(j) ==
  IF OpenedBefore(j) = {} THEN 0
  ELSE sigLog[CHOOSE k \in OpenedBefore(j) : \A i \in OpenedBefore(j) : i <= k].time

C23_CooldownRunsFromLastOpen ==
  /\ lastBrowserOpenTime = LastOpenBefore(Len(sigLog) + 1)
  /\ \A j \in 1..Len(sigLog) :
       /\ sigLog[j].opened <=>
            sigLog[j].time - LastOpenBefore(j) >= browserOpenDebounceTime
       /\ sigLog[j].opened => sigLog[j].clearedAtExec

\* C23 witness: a signal opened the browser, a second one 5 seconds later
\* was debounced, and a third one 10 seconds after the first and 5 seconds
\* after the second opened the browser again; a credential was stored at
\* startup.
C23_Witness ==
  /\ HadValidRecord
  /\ Len(sigLog) >= 3
  /\ sigLog[1].opened
  /\ ~sigLog[2].opened
  /\ sigLog[2].time > sigLog[1].time
  /\ sigLog[3].opened
  /\ sigLog[3].time - sigLog[1].time = browserOpenDebounceTime
  /\ sigLog[3].time - sigLog[2].time < browserOpenDebounceTime
  /\ lastBrowserOpenTime = sigLog[3].time

\* C22: every polling session stops.  While a session waits, its timer is
\* at most check_interval seconds away; a timer that fires more than
\* max_wait_time seconds after the session started stops the session, and
\* one that fires earlier issues a status check, at least check_interval
\* seconds after the previous one and no later than start + max_wait_time,
\* so a session issues at most max_wait_time / check_interval checks.
\* When timers fire and every check is answered or fails, a running
\* session eventually stops; in the model the only other way a run can end
\* is that the clock has reached its last step while the session's timer
\* is still in the future.
SessionRunning(i) ==
  IF i <= Len(sessions) THEN Running(sessions[i]) ELSE FALSE

SessionStopped(i) ==
  IF i <= Len(sessions) THEN sessions[i].phase = "stopped" ELSE FALSE

ClockRanOut(i) ==
  IF i <= Len(sessions)
  THEN /\ ticks = MaxTicks
       /\ sessions[i].phase = "timer"
       /\ sessions[i].due > now
  ELSE FALSE

TimerFires(i) ==
  /\ i <= Len(sessions)
  /\ sessions[i].phase = "timer"
  /\ sessions'[i] # sessions[i]

C22_EverySessionStops ==
  /\ [](\A i \in 1..Len(sessions) :
          /\ sessions[i].phase \in {"timer", "inflight", "stopped"}
          /\ sessions[i].phase = "timer" =>
               sessions[i].due <= now + sessions[i].check_interval * 1000
          /\ sessions[i].issuedAt <= Deadline(sessions[i]))
  /\ [][\A i \in 1..Len(sessions) :
          TimerFires(i) =>
             IF now > Deadline(sessions[i])
             THEN sessions'[i].phase = "stopped"
             ELSE /\ sessions'[i].phase = "inflight"
                  /\ sessions'[i].issuedAt = now
                  /\ now >= sessions[i].issuedAt + sessions[i].check_interval * 1000]_vars
  /\ \A i \in 1..(MaxSessions + 1) :
       SessionRunning(i) ~> (SessionStopped(i) \/ ClockRanOut(i))

\* C22 witness: a session that polled at the default interval issued a
\* status check, was rescheduled and stopped at the first poll tick after
\* max_wait_time had passed.
C22_Witness ==
  \E i \in 1..Len(sessions) :
     /\ sessions[i].state = "s2"
     /\ sessions[i].check_interval = DefaultCheckInterval
     /\ sessions[i].issuedAt > sessions[i].startTime
     /\ sessions[i].phase = "stopped"
     /\ sessions[i].outcome = "timeout"
     /\ now > Deadline(sessions[i])

====
